---- MODULE Spec2Model ----
(***************************************************************************)
(* quickfeed: the feed page (src/src/routes/+page.svelte) and the relay    *)
(* service it drives (src/src/lib/nostr.ts).                               *)
(*                                                                         *)
(* The page keeps the feed sequence mediaEvents, the seen-set              *)
(* seenEventIds and the pagination cursor oldestLoadedTimestamp.  Three    *)
(* paths write them: the initial historical load, the live subscription    *)
(* handler and loadMoreEvents (older pages, with its retry timers).        *)
(*                                                                         *)
(* An event is identified by its id (an integer here, a hex string in the  *)
(* program); its created_at is a fixed attribute of the id, as a Nostr id  *)
(* is a hash over the record.  The relays are one logical source holding   *)
(* a fixed store of records; a query answers with the newest records not   *)
(* newer than `until`, or fails.                                           *)
(***************************************************************************)
EXTENDS Integers, Sequences, FiniteSets, Bags, TLC

VARIABLES
    phase,                  \* onMount's position, and whether onDestroy has run
    nBulk,                  \* how many bulk records the relays hold (fixed per run)
    mediaEvents,            \* +page.svelte:10   the feed sequence (ids)
    seenEventIds,           \* +page.svelte:21
    oldestLoadedTimestamp,  \* +page.svelte:18   <<>> is null, <<t>> a timestamp
    isLoadingMore,          \* +page.svelte:16
    hasMoreEvents,          \* +page.svelte:17
    histPending,            \* getHistoricalMedia(30) issued, its .then not yet run
    inflight,               \* the getOlderEvents queries being awaited, oldest first
    timers,                 \* bag of pending setTimeout(() => loadMoreEvents(rc + 1))
    evicted,                \* history: ids the live path's slice(0, 100) has dropped
    last,                   \* history: what the last step did
    call,                   \* a NostrService method being run on its own: its arguments
    returned                \* <<>> while it runs, then <<v>>: what it returned or threw

vars == <<phase, nBulk, mediaEvents, seenEventIds, oldestLoadedTimestamp,
          isLoadingMore, hasMoreEvents, histPending, inflight, timers,
          evicted, last, call, returned>>

\* the page's own variables
pageVars == <<phase, nBulk, mediaEvents, seenEventIds, oldestLoadedTimestamp,
              isLoadingMore, hasMoreEvents, histPending, inflight, timers,
              evicted, last>>

----------------------------------------------------------------------------
(* Program constants *)

Day == 86400
MaxFeed == 100
PageLimit == 30
HistLimit == 30
MaxRetries == 3

(* Bounds of the model *)

NSmall == 3            \* bulk records of the small store
NMid == 31             \* bulk records of the middle store: one more than a page
NBig == 104            \* bulk records of the big store
Epoch == 1700000000    \* created_at of the newest bulk record
MaxTimers == 2         \* pending retry timers a UI call may add to
MaxDaysBack == 8       \* days below Epoch down to which the variant's cursor is followed
MaxRelays == 3         \* configured relays
MaxParts == 4          \* elements of an imeta tag after its name
MaxTags == 3           \* tags of a record
NTies == 31            \* records of one second in the store without bulk records
MaxRaw == 4            \* records in an answer given to fetchMediaEvents directly
MaxFetch == 3          \* largest limit given to fetchMediaEvents directly
MaxShown == 6          \* longest list given to MediaFeed on its own
MaxAdded == 3          \* most events one page adds to that list

----------------------------------------------------------------------------
(* The source: records and their created_at *)

FreshId == NBig + 2
OldA == NBig + 3
OldB == NBig + 4
BareId == NBig + 5

\* Bulk record i is i \div 2 seconds older than the newest one, so that
\* neighbours share a timestamp.  FreshId is published after the page was
\* opened, in the second of the newest bulk record.  OldA and OldB are more
\* than MaxRetries days older than any bulk record; BareId is a second newer
\* than OldA.  The records above BareId are all of the newest second.
CreatedAt(i) ==
    IF i > BareId THEN Epoch
    ELSE IF i = FreshId THEN Epoch
    ELSE IF i = BareId THEN Epoch - NBig - MaxRetries * Day
    ELSE IF i = OldA THEN Epoch - NBig - 1 - MaxRetries * Day
    ELSE IF i = OldB THEN Epoch - NBig - 2 - MaxRetries * Day
    ELSE Epoch - (i \div 2)

\* BareId is a record of kind 20 without a valid imeta tag: parseEvent gives
\* it an empty media list.  Every other record has media.
HasMedia(i) == i # BareId

\* What the relays hold, newest first: n bulk records and the old records;
\* the store without bulk records holds NTies records of one second instead,
\* which the relays return in a fixed order.
StoreSeq(n) ==
    (IF n = 0 THEN [k \in 1..NTies |-> BareId + k] ELSE [i \in 1..n |-> i])
        \o <<BareId, OldA, OldB>>

\* The records with media the live subscription may deliver (any number of
\* times); RelayIds adds the record without media.
LiveIds == {1, FreshId, OldA, OldB}
RelayIds == LiveIds \cup {BareId}

Null == <<>>
Some(t) == <<t>>

Min2(a, b) == IF a <= b THEN a ELSE b

Ids(s) == {s[k] : k \in 1..Len(s)}

----------------------------------------------------------------------------
(* Array helpers, as JavaScript computes them *)

\* Array.prototype.slice(0, n)
Take(s, n) == SubSeq(s, 1, Min2(n, Len(s)))

MinOf(S) == CHOOSE m \in S : \A k \in S : m <= k

MaxOf(S) == 0 - MinOf({0 - k : k \in S})

CreatedAtSet(s) == {CreatedAt(s[k]) : k \in 1..Len(s)}

\* Array.prototype.sort((a, b) => b.created_at - a.created_at): by created_at
\* descending, elements of equal created_at keeping their order (the sort is
\* stable).  Computed by splitting at the middle of the range of created_at.
RECURSIVE SortDesc(_)
SortDesc(s) ==
    IF Len(s) <= 1 THEN s
    ELSE LET lo == MinOf(CreatedAtSet(s))
             hi == MaxOf(CreatedAtSet(s))
             mid == lo + ((hi - lo) \div 2)
         IN IF lo = hi THEN s
            ELSE SortDesc(SelectSeq(s, LAMBDA i : CreatedAt(i) > mid))
                 \o SortDesc(SelectSeq(s, LAMBDA i : CreatedAt(i) <= mid))

\* (mutant) the created_at of the first element instead of the minimum
FirstCreatedAt(s) == CreatedAt(s[1])

\* Math.min(...s.map(e => e.created_at)) for a non-empty s
MinCreatedAt(s) == MinOf(CreatedAtSet(s))

\* (mutant) no deduplication
DedupNothing(s) == s

\* Array.from(new Map(s.map(e => [e.id, e])).values()): one entry per id, at
\* the place of the id's first occurrence
Dedup(s) ==
    LET firsts == SelectSeq([k \in 1..Len(s) |-> k],
                            LAMBDA k : \A j \in 1..(k - 1) : s[j] # s[k])
    IN [k \in 1..Len(firsts) |-> s[firsts[k]]]

IsSortedDesc(s) ==
    \A k \in 1..(Len(s) - 1) : CreatedAt(s[k]) >= CreatedAt(s[k + 1])

NoDuplicates(s) ==
    \A j, k \in 1..Len(s) : s[j] = s[k] => j = k

----------------------------------------------------------------------------
(* nostr.ts: fetchMediaEvents, getHistoricalMedia, getOlderEvents *)

\* Math.ceil(limit * 1.5)
FetchLimit(limit) == (3 * limit + 1) \div 2

\* How a query may end: the relays answer it ("ok"), the query throws
\* ("throws"), or the relays answer without honouring the filter's `until`
\* ("stale": the source that keeps returning records already seen).
Replies == {"ok", "throws"}
RepliesStale == {"ok", "throws", "stale"}

\* pool.querySync(relays, {...filter, limit}): the newest `limit` records of
\* the store, restricted to created_at <= until when the filter has `until`
QuerySync(n, until, limit, reply) ==
    Take(SelectSeq(StoreSeq(n),
                   LAMBDA i : \/ until = Null
                              \/ reply = "stale"
                              \/ CreatedAt(i) <= until[1]),
         limit)

\* (mutant) events without media are let through
MediaOnlyKeepsAll(events) == events

\* .filter(event => event !== null && Boolean(event.media?.length)), and the
\* test of subscribeToMediaFeed's onevent
MediaOnly(events) == SelectSeq(events, HasMedia)

\* fetchMediaEvents from the answer of querySync on: parsed and filtered,
\* deduplicated, sorted, sliced; a query that throws yields []
FetchOutcome(events, limit, throws) ==
    IF throws
    THEN <<>>
    ELSE Take(SortDesc(Dedup(MediaOnly(events))), limit)

\* fetchMediaEvents(filter, limit)
FetchMediaEvents(n, until, limit, reply) ==
    FetchOutcome(QuerySync(n, until, FetchLimit(limit), reply), limit,
                 reply = "throws")

GetHistoricalMedia(n, limit, reply) == FetchMediaEvents(n, Null, limit, reply)

GetOlderEvents(n, until, limit, reply) ==
    FetchMediaEvents(n, Some(until), limit, reply)

----------------------------------------------------------------------------
(* +page.svelte: the pieces of the handlers *)

\* (mutant) the live handler without its duplicate check
AlreadySeenNever(e, seen) == FALSE

\* seenEventIds.has(event.id)
AlreadySeen(e, seen) == e \in seen

\* (mutant) the seen-set replaced by the batch's ids instead of extended
SeenReplacedByHistorical(seen, historical) == Ids(historical)

\* historical.forEach(event => seenEventIds.add(event.id))
SeenAfterHistorical(seen, historical) == seen \cup Ids(historical)

\* (mutant) the seen-set kept equal to the ids resident in the feed
SeenPrunedToFeed(seen, e, kept) == Ids(kept) \cup {e}

\* (mutant) the live handler without seenEventIds.add
SeenWithoutLive(seen, e, kept) == seen

\* seenEventIds.add(event.id), whatever the slice keeps
SeenAfterLive(seen, e, kept) == seen \cup {e}

\* (mutant) a page merged without the seen-set filter
FilterNothing(events, seen) == events

\* olderEvents.filter(event => !seenEventIds.has(event.id))
FilterUnseen(events, seen) == SelectSeq(events, LAMBDA i : i \notin seen)

\* [event, ...mediaEvents] sorted
LiveSorted(e, feed) == SortDesc(<<e>> \o feed)

\* (mutant) the live handler without its slice
LiveNotTruncated(s) == s

\* newEvents.slice(0, 100)
LiveTruncate(s) == Take(s, MaxFeed)

\* (mutant) the page merge cut to the live bound
PageMergedTruncated(feed, newEvents) == Take(feed \o newEvents, MaxFeed)

\* mediaEvents = [...mediaEvents, ...newEvents]
PageMerged(feed, newEvents) == feed \o newEvents

\* (mutant) the cursor moved back by an hour
CursorBackOneHour(t) == t - 3600

\* oldestLoadedTimestamp - 86400
CursorBackOneDay(t) == t - Day

\* (mutant) loadMoreEvents without its finally block
LoadingLeftSet == TRUE

\* finally { isLoadingMore = false }
LoadingAfterFinally == FALSE

\* if (retryCount < 3)
RetryAllowed(retryCount) == retryCount < MaxRetries

\* (mutant) the guard without its hasMoreEvents test
GuardIgnoresExhausted ==
    \/ isLoadingMore
    \/ oldestLoadedTimestamp = Null
    \/ oldestLoadedTimestamp = Some(0)

\* (mutant) the guard without its isLoadingMore test
GuardIgnoresLoading ==
    \/ ~hasMoreEvents
    \/ oldestLoadedTimestamp = Null
    \/ oldestLoadedTimestamp = Some(0)

\* the guard of loadMoreEvents: 0 and null are both falsy
GuardReturns ==
    \/ isLoadingMore
    \/ ~hasMoreEvents
    \/ oldestLoadedTimestamp = Null
    \/ oldestLoadedTimestamp = Some(0)

\* a call of loadMoreEvents: its retryCount argument and, as history, how
\* many queries and cursor decrements its chain of retries has made
Call(retryCount, queries, decrements) ==
    [retryCount |-> retryCount, queries |-> queries, decrements |-> decrements]

----------------------------------------------------------------------------
InitPage ==
    /\ phase = "connecting"
    /\ nBulk \in {NSmall, NMid, NBig}
    /\ mediaEvents = <<>>
    /\ seenEventIds = {}
    /\ oldestLoadedTimestamp = Null
    /\ isLoadingMore = FALSE
    /\ hasMoreEvents = TRUE
    /\ histPending = FALSE
    /\ inflight = <<>>
    /\ timers = EmptyBag
    /\ evicted = {}
    /\ last = "init"

Init ==
    /\ InitPage
    /\ call = <<>>
    /\ returned = <<>>

\* phase: "connecting", "running" and "failed" are onMount's positions
\* (awaiting connect(), past it, in its catch) while the component lives;
\* after onDestroy they are "destroyed_connecting", "destroyed_subscribed"
\* (onMount went past connect() after the teardown and subscribed) and
\* "destroyed_failed"; "destroyed" is the running session torn down, whose
\* subscription the closing of the pool ended.
TornDown ==
    phase \in {"destroyed", "destroyed_connecting", "destroyed_subscribed",
               "destroyed_failed"}

\* the live subscription is open
Subscribed == phase \in {"running", "destroyed_subscribed"}

\* onMount: connect() resolved; getHistoricalMedia(30) is issued and the live
\* subscription is opened (onMount does not look whether onDestroy has run)
ConnectOk ==
    /\ UNCHANGED <<call, returned>>
    /\ phase \in {"connecting", "destroyed_connecting"}
    /\ phase' = IF phase = "connecting" THEN "running" ELSE "destroyed_subscribed"
    /\ histPending' = TRUE
    /\ last' = "connected"
    /\ UNCHANGED <<nBulk, mediaEvents, seenEventIds, oldestLoadedTimestamp,
                   isLoadingMore, hasMoreEvents, inflight, timers, evicted>>

\* onMount: connect() threw: nothing is loaded or subscribed
ConnectFail ==
    /\ UNCHANGED <<call, returned>>
    /\ phase \in {"connecting", "destroyed_connecting"}
    /\ phase' = IF phase = "connecting" THEN "failed" ELSE "destroyed_failed"
    /\ last' = "connect_failed"
    /\ UNCHANGED <<nBulk, mediaEvents, seenEventIds, oldestLoadedTimestamp,
                   isLoadingMore, hasMoreEvents, histPending, inflight, timers,
                   evicted>>

\* the .then of getHistoricalMedia(30)
HistoricalLoaded(reply) ==
    /\ UNCHANGED <<call, returned>>
    /\ phase \in {"running", "destroyed", "destroyed_subscribed"}
    /\ histPending
    /\ LET historical == GetHistoricalMedia(nBulk, HistLimit, reply)
           sorted == SortDesc(historical)
       IN /\ seenEventIds' = SeenAfterHistorical(seenEventIds, historical)
          /\ mediaEvents' = sorted
          /\ oldestLoadedTimestamp' =
                IF Len(sorted) > 0 THEN Some(MinCreatedAt(sorted))
                ELSE oldestLoadedTimestamp
    /\ histPending' = FALSE
    /\ last' = "historical"
    /\ UNCHANGED <<phase, nBulk, isLoadingMore, hasMoreEvents, inflight, timers,
                   evicted>>

\* the live subscription's onEvent handler
OnEvent(e) ==
    /\ UNCHANGED <<call, returned>>
    /\ Subscribed
    /\ IF AlreadySeen(e, seenEventIds)
       THEN /\ last' = IF e \in evicted THEN "live_duplicate_evicted"
                                             ELSE "live_duplicate"
            /\ UNCHANGED <<mediaEvents, seenEventIds, evicted>>
       ELSE LET sorted == LiveSorted(e, mediaEvents)
                kept == LiveTruncate(sorted)
            IN /\ seenEventIds' = SeenAfterLive(seenEventIds, e, kept)
               /\ mediaEvents' = kept
               /\ evicted' = evicted \cup (Ids(sorted) \ Ids(kept))
               /\ last' = IF Len(kept) < Len(sorted) THEN "live_truncated"
                                                       ELSE "live_merged"
    /\ UNCHANGED <<phase, nBulk, oldestLoadedTimestamp, isLoadingMore,
                   hasMoreEvents, histPending, inflight, timers>>

\* subscribeToMediaFeed's onevent: an event with media is handed to the
\* page's handler, any other is dropped
OnRelayEvent(e) ==
    IF MediaOnly(<<e>>) # <<>>
    THEN OnEvent(e)
    ELSE /\ Subscribed
         /\ last' = "live_dropped"
         /\ UNCHANGED <<phase, nBulk, mediaEvents, seenEventIds,
                        oldestLoadedTimestamp, isLoadingMore, hasMoreEvents,
                        histPending, inflight, timers, evicted, call, returned>>

\* loadMoreEvents(retryCount) up to its await
EnterLoadMore(c, op) ==
    IF GuardReturns
    THEN /\ last' = IF op = "load_retried" THEN "retry_suppressed"
                                             ELSE "load_suppressed"
         /\ UNCHANGED <<isLoadingMore, inflight>>
    ELSE /\ isLoadingMore' = TRUE
         /\ inflight' = Append(inflight, [c EXCEPT !.queries = @ + 1] @@
                                          [until |-> oldestLoadedTimestamp[1]])
         /\ last' = op

\* MediaFeed calls onLoadMore(): loadMoreEvents() with retryCount = 0
LoadMoreCall ==
    /\ UNCHANGED <<call, returned>>
    /\ phase = "running"
    /\ BagCardinality(timers) <= MaxTimers
    /\ EnterLoadMore(Call(0, 0, 0), "load_called")
    /\ UNCHANGED <<phase, nBulk, mediaEvents, seenEventIds, oldestLoadedTimestamp,
                   hasMoreEvents, histPending, timers, evicted>>

\* a retry timer fires: loadMoreEvents(retryCount + 1)
TimerFire(c) ==
    /\ UNCHANGED <<call, returned>>
    /\ BagIn(c, timers)
    /\ timers' = timers (-) SetToBag({c})
    /\ EnterLoadMore(c, "load_retried")
    /\ UNCHANGED <<phase, nBulk, mediaEvents, seenEventIds, oldestLoadedTimestamp,
                   hasMoreEvents, histPending, evicted>>

\* loadMoreEvents from the await's return to the end of its finally block
LoadMoreReturn(reply) ==
    /\ UNCHANGED <<call, returned>>
    /\ inflight # <<>>
    /\ LET r == inflight[1]
           olderEvents == GetOlderEvents(nBulk, r.until, PageLimit, reply)
           newEvents == FilterUnseen(olderEvents, seenEventIds)
       IN IF Len(olderEvents) = 0
          THEN /\ hasMoreEvents' = FALSE
               /\ last' = "page_empty"
               /\ UNCHANGED <<mediaEvents, seenEventIds, oldestLoadedTimestamp,
                              timers>>
          ELSE IF Len(newEvents) > 0
          THEN /\ seenEventIds' = seenEventIds \cup Ids(newEvents)
               /\ oldestLoadedTimestamp' = Some(MinCreatedAt(newEvents))
               /\ mediaEvents' = PageMerged(mediaEvents, newEvents)
               /\ last' = "page_merged"
               /\ UNCHANGED <<hasMoreEvents, timers>>
          ELSE IF RetryAllowed(r.retryCount)
          THEN /\ oldestLoadedTimestamp' = Some(CursorBackOneDay(oldestLoadedTimestamp[1]))
               /\ timers' = timers (+) SetToBag({Call(r.retryCount + 1, r.queries,
                                                      r.decrements + 1)})
               /\ last' = "page_duplicate_retry"
               /\ UNCHANGED <<mediaEvents, seenEventIds, hasMoreEvents>>
          ELSE /\ hasMoreEvents' = FALSE
               /\ last' = "page_duplicate_abort"
               /\ UNCHANGED <<mediaEvents, seenEventIds, oldestLoadedTimestamp,
                              timers>>
    /\ isLoadingMore' = LoadingAfterFinally
    /\ inflight' = Tail(inflight)
    /\ UNCHANGED <<phase, nBulk, histPending, evicted>>

Next ==
    \/ ConnectOk
    \/ ConnectFail
    \/ \E reply \in Replies : HistoricalLoaded(reply)
    \/ \E e \in RelayIds : OnRelayEvent(e)
    \/ LoadMoreCall
    \/ \E c \in BagToSet(timers) : TimerFire(c)
    \/ \E reply \in Replies : LoadMoreReturn(reply)

Spec == Init /\ [][Next]_vars

\* A query that was issued returns or throws (the two members of Replies):
\* the await of loadMoreEvents is resumed.
QueryCompletes == LoadMoreReturn("throws") \/ LoadMoreReturn("ok")

SpecLive == Init /\ [][Next]_vars /\ WF_vars(QueryCompletes)

----------------------------------------------------------------------------
(* Teardown.  onDestroy calls nostrService?.close(), whatever onMount's      *)
(* position: it closes the pool's relay connections, so that an open live    *)
(* subscription ends with them, and the component takes no further calls     *)
(* from MediaFeed.  It clears no timer, cancels no query and does not stop   *)
(* onMount: a scheduled loadMoreEvents still runs, a query in flight still   *)
(* returns, and an onMount that awaits connect() goes on to load and to      *)
(* subscribe.                                                                *)

Destroy ==
    /\ ~TornDown
    /\ phase' = CASE phase = "connecting" -> "destroyed_connecting"
                  [] phase = "failed" -> "destroyed_failed"
                  [] OTHER -> "destroyed"
    /\ last' = "destroyed"
    /\ UNCHANGED <<nBulk, mediaEvents, seenEventIds, oldestLoadedTimestamp,
                   isLoadingMore, hasMoreEvents, histPending, inflight, timers,
                   evicted, call, returned>>

InitTeardown == Init /\ nBulk = NSmall

NextTeardown ==
    \/ ConnectOk
    \/ ConnectFail
    \/ \E reply \in Replies : HistoricalLoaded(reply)
    \/ \E e \in RelayIds : OnRelayEvent(e)
    \/ LoadMoreCall
    \/ \E c \in BagToSet(timers) : TimerFire(c)
    \/ \E reply \in Replies : LoadMoreReturn(reply)
    \/ Destroy

SpecTeardown == InitTeardown /\ [][NextTeardown]_vars

----------------------------------------------------------------------------
(* The page over the store whose newest records share one second: more of   *)
(* them than a page holds.                                                   *)

InitTies ==
    /\ phase = "connecting"
    /\ nBulk = 0
    /\ mediaEvents = <<>>
    /\ seenEventIds = {}
    /\ oldestLoadedTimestamp = Null
    /\ isLoadingMore = FALSE
    /\ hasMoreEvents = TRUE
    /\ histPending = FALSE
    /\ inflight = <<>>
    /\ timers = EmptyBag
    /\ evicted = {}
    /\ last = "init"
    /\ call = <<>>
    /\ returned = <<>>

SpecTies == InitTies /\ [][Next]_vars

----------------------------------------------------------------------------
(* The second loadMoreEvents of +page.svelte (lines 380-412): no retry       *)
(* counter and no argument; an all-duplicate page always moves the cursor    *)
(* back a day and schedules setTimeout(loadMoreEvents, 1000).  Its guard and *)
(* its other branches are those of the first.                                *)

LoadMoreReturnUnbounded(reply) ==
    /\ UNCHANGED <<call, returned>>
    /\ inflight # <<>>
    /\ LET r == inflight[1]
           olderEvents == GetOlderEvents(nBulk, r.until, PageLimit, reply)
           newEvents == FilterUnseen(olderEvents, seenEventIds)
       IN IF Len(olderEvents) = 0
          THEN /\ hasMoreEvents' = FALSE
               /\ last' = "page_empty"
               /\ UNCHANGED <<mediaEvents, seenEventIds, oldestLoadedTimestamp,
                              timers>>
          ELSE IF Len(newEvents) > 0
          THEN /\ seenEventIds' = seenEventIds \cup Ids(newEvents)
               /\ oldestLoadedTimestamp' = Some(MinCreatedAt(newEvents))
               /\ mediaEvents' = PageMerged(mediaEvents, newEvents)
               /\ last' = "page_merged"
               /\ UNCHANGED <<hasMoreEvents, timers>>
          ELSE /\ oldestLoadedTimestamp' = Some(CursorBackOneDay(oldestLoadedTimestamp[1]))
               /\ timers' = timers (+) SetToBag({Call(0, r.queries, r.decrements + 1)})
               /\ last' = "page_duplicate_retry"
               /\ UNCHANGED <<mediaEvents, seenEventIds, hasMoreEvents>>
    /\ isLoadingMore' = LoadingAfterFinally
    /\ inflight' = Tail(inflight)
    /\ UNCHANGED <<phase, nBulk, histPending, evicted>>

\* The variant's cursor has no lower limit while its pages are
\* all-duplicate: the model follows it down to MaxDaysBack days below Epoch
\* and issues no query from a cursor at or below that.
CursorAboveFloor ==
    IF oldestLoadedTimestamp = Null THEN TRUE
    ELSE oldestLoadedTimestamp[1] > Epoch - MaxDaysBack * Day

\* MediaFeed calls onLoadMore(): the variant's loadMoreEvents(), whose guard
\* (line 380) is that of the first; a retry timer may be pending
LoadMoreCallUnbounded ==
    /\ CursorAboveFloor
    /\ LoadMoreCall

\* the variant's retry timer fires: loadMoreEvents()
TimerFireUnbounded(c) ==
    /\ CursorAboveFloor
    /\ TimerFire(c)

InitUnbounded ==
    /\ Init
    /\ nBulk = NSmall

NextUnbounded ==
    \/ ConnectOk
    \/ ConnectFail
    \/ \E reply \in Replies : HistoricalLoaded(reply)
    \/ \E e \in RelayIds : OnRelayEvent(e)
    \/ LoadMoreCallUnbounded
    \/ \E c \in BagToSet(timers) : TimerFireUnbounded(c)
    \/ \E reply \in RepliesStale : LoadMoreReturnUnbounded(reply)

SpecUnbounded == InitUnbounded /\ [][NextUnbounded]_vars

----------------------------------------------------------------------------
(* nostr.ts: NostrService.connect, run on its own.  The attempts to reach   *)
(* the relays settle one by one in any order; Promise.allSettled waits for  *)
(* all of them and hands connect() one result per relay, in relay order.    *)

\* what Promise.allSettled resolves to: has relay r's attempt succeeded
AllSettled(n, settled) ==
    [r \in 1..n |->
        \E k \in 1..Len(settled) : settled[k].relay = r /\ settled[k].ok]

\* lines 24-49: every attempt is wrapped in try / catch and fulfils with
\* {relay, success}; the failed ones are the fulfilled results with !success
ConnectThrowsWrapped(results) ==
    LET wrapped == [r \in 1..Len(results) |->
                       [status |-> "fulfilled", success |-> results[r]]]
        failedConnections ==
            SelectSeq(wrapped,
                      LAMBDA w : w.status = "fulfilled" /\ ~w.success)
    IN Len(failedConnections) = Len(results)

\* (mutant) connect() giving up as soon as one relay has failed
ConnectThrowsOnAny(results) ==
    Len(SelectSeq(results, LAMBDA ok : ~ok)) > 0

\* lines 461-474: failed = results.filter(r => r.status === 'rejected').length;
\* throws when failed === this.relays.length
ConnectThrows(results) ==
    Len(SelectSeq(results, LAMBDA ok : ~ok)) = Len(results)

ConnectVersions == {"wrapped", "allSettled"}

\* connect() is called on a service configured with 0..MaxRelays relays
InitConnect ==
    /\ InitPage
    /\ nBulk = NSmall
    /\ call \in {<<[fn |-> "connect", version |-> v, relays |-> n,
                    settled |-> <<>>]>> :
                 v \in ConnectVersions, n \in 0..MaxRelays}
    /\ returned = <<>>

\* pool.ensureRelay(relay) resolves (ok) or rejects for one relay
RelaySettles(r, ok) ==
    /\ call[1].fn = "connect"
    /\ returned = <<>>
    /\ r \in 1..call[1].relays
    /\ \A k \in 1..Len(call[1].settled) : call[1].settled[k].relay # r
    /\ call' = <<[call[1] EXCEPT
                    !.settled = Append(@, [relay |-> r, ok |-> ok])]>>
    /\ UNCHANGED <<returned, pageVars>>

\* every attempt has settled: connect() resolves or throws
ConnectReturns ==
    /\ call[1].fn = "connect"
    /\ returned = <<>>
    /\ Len(call[1].settled) = call[1].relays
    /\ LET results == AllSettled(call[1].relays, call[1].settled)
           throws == IF call[1].version = "wrapped"
                     THEN ConnectThrowsWrapped(results)
                     ELSE ConnectThrows(results)
       IN returned' = <<IF throws THEN "throws" ELSE "resolved">>
    /\ UNCHANGED <<call, pageVars>>

NextConnect ==
    \/ \E r \in 1..MaxRelays : \E ok \in BOOLEAN : RelaySettles(r, ok)
    \/ ConnectReturns

SpecConnect == InitConnect /\ [][NextConnect]_vars

----------------------------------------------------------------------------
(* nostr.ts: NostrService.parseImetaTag, run on its own.  A string is the   *)
(* sequence of its characters; an optional field is <<>> when undefined and *)
(* <<v>> when set, so that the empty string is the set value << <<>> >>.     *)

\* String.prototype.startsWith
StartsWith(str, prefix) ==
    /\ Len(str) >= Len(prefix)
    /\ SubSeq(str, 1, Len(prefix)) = prefix

\* String.prototype.substring(k)
Substring(str, k) == SubSeq(str, k + 1, Len(str))

KeyUrl == <<"u", "r", "l", " ">>
KeyM == <<"m", " ">>
KeyDim == <<"d", "i", "m", " ">>
KeyBlurhash == <<"b", "l", "u", "r", "h", "a", "s", "h", " ">>
KeyAlt == <<"a", "l", "t", " ">>
KeyX == <<"x", " ">>
KeyFallback == <<"f", "a", "l", "l", "b", "a", "c", "k", " ">>
KeyImage == <<"i", "m", "a", "g", "e", " ">>
KeyService == <<"s", "e", "r", "v", "i", "c", "e", " ">>

\* const data: ImetaData = {}
EmptyData ==
    [url |-> Null, mimeType |-> Null, dimensions |-> Null, blurhash |-> Null,
     alt |-> Null, x |-> Null, fallback |-> Null, image |-> Null,
     service |-> Null]

\* (mutant) a list that takes new values at its front
PushFront(list, v) ==
    IF list = Null THEN Some(<<v>>) ELSE Some(<<v>> \o list[1])

\* if (!data.fallback) data.fallback = []; data.fallback.push(v)
Push(list, v) ==
    IF list = Null THEN Some(<<v>>) ELSE Some(Append(list[1], v))

\* lines 55-76: the body of the loop, one else-if per key
ParsePart(data, part) ==
    IF StartsWith(part, KeyUrl)
    THEN [data EXCEPT !.url = Some(Substring(part, 4))]
    ELSE IF StartsWith(part, KeyM)
    THEN [data EXCEPT !.mimeType = Some(Substring(part, 2))]
    ELSE IF StartsWith(part, KeyDim)
    THEN [data EXCEPT !.dimensions = Some(Substring(part, 4))]
    ELSE IF StartsWith(part, KeyBlurhash)
    THEN [data EXCEPT !.blurhash = Some(Substring(part, 9))]
    ELSE IF StartsWith(part, KeyAlt)
    THEN [data EXCEPT !.alt = Some(Substring(part, 4))]
    ELSE IF StartsWith(part, KeyX)
    THEN [data EXCEPT !.x = Some(Substring(part, 2))]
    ELSE IF StartsWith(part, KeyFallback)
    THEN [data EXCEPT !.fallback = Push(@, Substring(part, 9))]
    ELSE IF StartsWith(part, KeyImage)
    THEN [data EXCEPT !.image = Push(@, Substring(part, 6))]
    ELSE IF StartsWith(part, KeyService)
    THEN [data EXCEPT !.service = Some(Substring(part, 8))]
    ELSE data

\* lines 478-494: the table of parsers, in the order Object.entries yields
Parsers ==
    <<[prefix |-> KeyUrl, field |-> "url", list |-> FALSE],
      [prefix |-> KeyM, field |-> "mimeType", list |-> FALSE],
      [prefix |-> KeyDim, field |-> "dimensions", list |-> FALSE],
      [prefix |-> KeyBlurhash, field |-> "blurhash", list |-> FALSE],
      [prefix |-> KeyAlt, field |-> "alt", list |-> FALSE],
      [prefix |-> KeyX, field |-> "x", list |-> FALSE],
      [prefix |-> KeyFallback, field |-> "fallback", list |-> TRUE],
      [prefix |-> KeyImage, field |-> "image", list |-> TRUE],
      [prefix |-> KeyService, field |-> "service", list |-> FALSE]>>

\* (mutant) a part no else-if recognizes is kept as the alt text
ParsePartKeepsUnknown(data, part) ==
    IF ParsePart(data, part) = data /\ ParsePart(EmptyData, part) = EmptyData
    THEN [data EXCEPT !.alt = Some(part)]
    ELSE ParsePart(data, part)

\* lines 497-503: the first parser whose prefix the part starts with
ParsePartTable(data, part) ==
    LET hits == SelectSeq(Parsers, LAMBDA q : StartsWith(part, q.prefix))
    IN IF hits = <<>> THEN data
       ELSE LET q == hits[1]
                v == Substring(part, Len(q.prefix))
            IN IF q.list THEN [data EXCEPT ![q.field] = Push(@, v)]
                         ELSE [data EXCEPT ![q.field] = Some(v)]

\* for (let i = 1; i < imetaTag.length; i++): element 0 is the tag's name
RECURSIVE ParseLoop(_, _, _, _)
ParseLoop(imetaTag, i, data, version) ==
    IF i > Len(imetaTag) THEN data
    ELSE ParseLoop(imetaTag, i + 1,
                   IF version = "table" THEN ParsePartTable(data, imetaTag[i])
                                        ELSE ParsePart(data, imetaTag[i]),
                   version)

\* (mutant) only an undefined field counts as missing
FalsyUndefinedOnly(v) == v = Null

\* !data.url: undefined and the empty string are both falsy
Falsy(v) == v = Null \/ v = Some(<<>>)

\* parseImetaTag: <<>> for null, <<descriptor>> otherwise
ParseImetaTag(imetaTag, version) ==
    LET data == ParseLoop(imetaTag, 2, EmptyData, version)
    IN IF Falsy(data.url) \/ Falsy(data.mimeType) THEN Null ELSE Some(data)

ImetaVersions == {"chain", "table"}

\* the elements the tags under test are made of
Parts ==
    {KeyUrl \o <<"a">>, KeyUrl, KeyM \o <<"v">>, KeyM,
     KeyFallback \o <<"1">>, KeyFallback \o <<"2">>, KeyImage \o <<"1">>,
     <<"z", " ", "q">>, <<"u", "r", "l", "s", " ", "a">>}

ImetaTags ==
    {<<<<"i", "m", "e", "t", "a">>>> \o t :
        t \in UNION {[1..n -> Parts] : n \in 0..MaxParts}}

InitImeta ==
    /\ InitPage
    /\ nBulk = NSmall
    /\ call \in {<<[fn |-> "parseImetaTag", version |-> v, imetaTag |-> t]>> :
                 v \in ImetaVersions, t \in ImetaTags}
    /\ returned = <<>>

ParseImetaTagReturns ==
    /\ call[1].fn = "parseImetaTag"
    /\ returned = <<>>
    /\ returned' = <<ParseImetaTag(call[1].imetaTag, call[1].version)>>
    /\ UNCHANGED <<call, pageVars>>

NextImeta == ParseImetaTagReturns

SpecImeta == InitImeta /\ [][NextImeta]_vars

----------------------------------------------------------------------------
(* nostr.ts: NostrService.parseEvent, run on its own.  A record is its kind *)
(* and its tags; id, pubkey, created_at and content are copied unread.      *)

NameImeta == <<"i", "m", "e", "t", "a">>
NameTitle == <<"t", "i", "t", "l", "e">>
NameDuration == <<"d", "u", "r", "a", "t", "i", "o", "n">>
NamePublishedAt == <<"p", "u", "b", "l", "i", "s", "h", "e", "d", "_", "a", "t">>

\* a JavaScript number: NaN or an integer
NaN == <<"NaN">>
Num(n) == <<"int", n>>

\* StrWhiteSpaceChar: the characters parseInt skips before the number.  The
\* members after "\f" are written as the characters themselves: U+000B
\* (vertical tab), U+00A0 (no-break space), U+1680 (ogham space mark) and
\* U+FEFF (byte order mark).  U+2000 to U+200A, U+2028, U+2029, U+202F, U+205F
\* and U+3000, which parseInt skips as well, are characters that no string
\* of a module can hold.
WhiteSpace == {" ", "\t", "\n", "\r", "\f", "", " ", " ", "﻿"}

HexLower ==
    <<"0", "1", "2", "3", "4", "5", "6", "7", "8", "9",
      "a", "b", "c", "d", "e", "f">>
HexUpper ==
    <<"0", "1", "2", "3", "4", "5", "6", "7", "8", "9",
      "A", "B", "C", "D", "E", "F">>

\* the value of a digit character, 16 for a character that is no digit
DigitOf(c) ==
    IF \E i \in 1..16 : HexLower[i] = c
    THEN (CHOOSE i \in 1..16 : HexLower[i] = c) - 1
    ELSE IF \E i \in 1..16 : HexUpper[i] = c
    THEN (CHOOSE i \in 1..16 : HexUpper[i] = c) - 1
    ELSE 16

RECURSIVE DigitsValue(_, _)
DigitsValue(digits, radix) ==
    IF digits = <<>> THEN 0
    ELSE DigitsValue(SubSeq(digits, 1, Len(digits) - 1), radix) * radix
         + DigitOf(digits[Len(digits)])

\* parseInt(string) without a radix: leading white space is skipped, then an
\* optional sign, then 0x or 0X selects radix 16, then the longest run of
\* digits is taken; no digit gives NaN
ParseIntString(str) ==
    LET black == {i \in 1..Len(str) : str[i] \notin WhiteSpace}
        trimmed == IF black = {} THEN <<>>
                   ELSE SubSeq(str, MinOf(black), Len(str))
        signed == trimmed # <<>> /\ trimmed[1] \in {"+", "-"}
        sign == IF trimmed # <<>> /\ trimmed[1] = "-" THEN 0 - 1 ELSE 1
        rest == IF signed THEN Tail(trimmed) ELSE trimmed
        hex == /\ Len(rest) >= 2
               /\ rest[1] = "0"
               /\ rest[2] \in {"x", "X"}
        radix == IF hex THEN 16 ELSE 10
        body == IF hex THEN SubSeq(rest, 3, Len(rest)) ELSE rest
        bad == {i \in 1..Len(body) : DigitOf(body[i]) >= radix}
        digits == IF bad = {} THEN body ELSE SubSeq(body, 1, MinOf(bad) - 1)
    IN IF digits = <<>> THEN NaN ELSE Num(sign * DigitsValue(digits, radix))

\* parseInt(v): an undefined argument is first turned into "undefined"
ParseInt(v) ==
    IF v = Null THEN ParseIntString(<<"u", "n", "d", "e", "f", "i", "n", "e", "d">>)
    ELSE ParseIntString(v[1])

\* tags.find((tag) => tag[0] === name): <<>> or <<tag>>
FindTag(tags, name) ==
    LET hits == SelectSeq(tags, LAMBDA tag : tag # <<>> /\ tag[1] = name)
    IN IF hits = <<>> THEN Null ELSE Some(hits[1])

\* tag[1]: undefined for a tag that has only its name
TagValue(tag) == IF Len(tag) >= 2 THEN Some(tag[2]) ELSE Null

\* (mutant) every kind is taken for a media kind
RecognizedKindAny(kind) == TRUE

\* !(event.kind !== 20 && event.kind !== 22)
RecognizedKind(kind) == kind = 20 \/ kind = 22

\* (mutant) the loop over the imeta tags stopping at the first invalid one
CollectMediaUntilInvalid(imetaTags, version) ==
    LET parsed == [k \in 1..Len(imetaTags) |->
                      ParseImetaTag(imetaTags[k], version)]
        bad == {k \in 1..Len(parsed) : parsed[k] = Null}
        kept == IF bad = {} THEN parsed ELSE SubSeq(parsed, 1, MinOf(bad) - 1)
    IN [k \in 1..Len(kept) |-> kept[k][1]]

\* lines 104-112: for (const imetaTag of imetaTags) { ... media.push(mediaItem) }
CollectMedia(imetaTags, version) ==
    LET parsed == [k \in 1..Len(imetaTags) |->
                      ParseImetaTag(imetaTags[k], version)]
        kept == SelectSeq(parsed, LAMBDA r : r # Null)
    IN [k \in 1..Len(kept) |-> kept[k][1]]

\* parseEvent: <<>> for null, <<mediaEvent>> otherwise
ParseEvent(event, version) ==
    IF ~RecognizedKind(event.kind) THEN Null
    ELSE LET titleTag == FindTag(event.tags, NameTitle)
             imetaTags == SelectSeq(event.tags,
                                    LAMBDA tag : tag # <<>> /\ tag[1] = NameImeta)
             durationTag == FindTag(event.tags, NameDuration)
             publishedAtTag == FindTag(event.tags, NamePublishedAt)
         IN Some([kind |-> event.kind,
                  tags |-> event.tags,
                  title |-> IF titleTag = Null THEN Null
                            ELSE TagValue(titleTag[1]),
                  media |-> CollectMedia(imetaTags, version),
                  duration |-> IF durationTag = Null THEN Null
                               ELSE Some(ParseInt(TagValue(durationTag[1]))),
                  published_at |-> IF publishedAtTag = Null THEN Null
                                   ELSE Some(ParseInt(TagValue(publishedAtTag[1])))])

\* the kinds of the records under test
EventKinds == {1, 20, 21, 22}

\* the tags the records under test are made of
EventTags ==
    {<<NameImeta, KeyUrl \o <<"a">>, KeyM \o <<"v">>>>,
     <<NameImeta, KeyUrl \o <<"b">>, KeyM \o <<"v">>>>,
     <<NameImeta, KeyUrl \o <<"a">>>>,
     <<NameDuration, <<"4", "5">>>>,
     <<NameDuration, <<"a", "b", "c">>>>,
     <<NameDuration, <<"1", "2", "p", "x">>>>,
     <<NameDuration>>,
     <<NamePublishedAt, <<" ", "\r", "", " ", "-", "7">>>>,
     <<NamePublishedAt, <<"0", "x", "1", "F">>>>,
     <<NameTitle, <<"t">>>>}

Events ==
    {[kind |-> k, tags |-> t] :
        k \in EventKinds, t \in UNION {[1..n -> EventTags] : n \in 0..MaxTags}}

InitEvent ==
    /\ InitPage
    /\ nBulk = NSmall
    /\ call \in {<<[fn |-> "parseEvent", version |-> v, event |-> e]>> :
                 v \in ImetaVersions, e \in Events}
    /\ returned = <<>>

ParseEventReturns ==
    /\ call[1].fn = "parseEvent"
    /\ returned = <<>>
    /\ returned' = <<ParseEvent(call[1].event, call[1].version)>>
    /\ UNCHANGED <<call, pageVars>>

NextEvent == ParseEventReturns

SpecEvent == InitEvent /\ [][NextEvent]_vars

----------------------------------------------------------------------------
(* fetchMediaEvents on any answer of the relays: records in any order, with  *)
(* repetitions (one record from several relays) and records without media.  *)

RawIds == {1, 2, 3, 4, BareId}

RawAnswers == UNION {[1..n -> RawIds] : n \in 0..MaxRaw}

InitFetch ==
    /\ InitPage
    /\ nBulk = NSmall
    /\ call \in {<<[fn |-> "fetchMediaEvents", events |-> a, limit |-> l,
                    throws |-> t]>> :
                 a \in RawAnswers, l \in 1..MaxFetch, t \in BOOLEAN}
    /\ returned = <<>>

FetchMediaEventsReturns ==
    /\ call[1].fn = "fetchMediaEvents"
    /\ returned = <<>>
    /\ returned' = <<FetchOutcome(call[1].events, call[1].limit, call[1].throws)>>
    /\ UNCHANGED <<call, pageVars>>

NextFetch == FetchMediaEventsReturns

SpecFetch == InitFetch /\ [][NextFetch]_vars

----------------------------------------------------------------------------
(* +page.svelte: filteredEvents, the reactive projection of mediaEvents by    *)
(* the URL's tag and user parameters.  The parameters are held in `call`;    *)
(* filteredEvents is recomputed by Svelte whenever mediaEvents or a          *)
(* parameter changed, so it is a function of the state.                      *)

\* event.pubkey and event.tags of the records
PubkeyOf(i) == IF i % 3 = 0 THEN "alice" ELSE "bob"

TagsOf(i) ==
    CASE i % 4 = 0 -> << <<"t", "cats">> >>
      [] i % 4 = 1 -> << <<"e", "cats">>, <<"t", "dogs">> >>
      [] i % 4 = 2 -> << <<"t">>, <<"p", "alice">>, <<"t", "cats">> >>
      [] OTHER -> <<>>

\* a[k] of a JavaScript array (indices from 0): undefined past the end
ElementAt(a, k) == IF k < Len(a) THEN Some(a[k + 1]) ELSE Null

\* a parameter is falsy when it is null or the empty string
Truthy(x) == x # Null /\ x # Some("")

\* event.tags.some(tagArray => tagArray[0] === 't' && tagArray[1] === tag)
HasTag(i, tag) ==
    \E k \in 1..Len(TagsOf(i)) :
        /\ ElementAt(TagsOf(i)[k], 0) = Some("t")
        /\ ElementAt(TagsOf(i)[k], 1) = tag

\* filterEventsByTag(events, tag)
FilterEventsByTag(events, tag) ==
    IF ~Truthy(tag) THEN events
    ELSE SelectSeq(events, LAMBDA i : HasTag(i, tag))

\* filterEventsByUser(events, user)
FilterEventsByUser(events, user) ==
    IF ~Truthy(user) THEN events
    ELSE SelectSeq(events, LAMBDA i : Some(PubkeyOf(i)) = user)

\* (mutant) the tag filter taking precedence over the author filter
FilteredTagFirst(events, tag, user) ==
    IF Truthy(tag) THEN FilterEventsByTag(events, tag)
    ELSE FilterEventsByUser(events, user)

\* currentUser ? filterEventsByUser(mediaEvents, currentUser)
\*             : filterEventsByTag(mediaEvents, currentTag)
FilteredByFunctions(events, tag, user) ==
    IF Truthy(user) THEN FilterEventsByUser(events, user)
    ELSE FilterEventsByTag(events, tag)

\* mediaEvents.filter(event => { if (currentFilter.user) ...; if
\* (currentFilter.tag) ...; return true })
FilteredInline(events, tag, user) ==
    SelectSeq(events,
              LAMBDA i : IF Truthy(user) THEN Some(PubkeyOf(i)) = user
                         ELSE IF Truthy(tag) THEN HasTag(i, tag)
                         ELSE TRUE)

FilterVersions == {"functions", "inline"}

\* filteredEvents in the current state
FilteredEvents ==
    IF call[1].version = "functions"
    THEN FilteredByFunctions(mediaEvents, call[1].tag, call[1].user)
    ELSE FilteredInline(mediaEvents, call[1].tag, call[1].user)

\* $page.url.searchParams.get('tag') and .get('user')
TagParams == {Null, Some(""), Some("cats")}
UserParams == {Null, Some(""), Some("alice")}

InitFilter ==
    /\ InitPage
    /\ nBulk = NSmall
    /\ call \in {<<[fn |-> "filter", version |-> v, tag |-> t, user |-> u]>> :
                 v \in FilterVersions, t \in TagParams, u \in UserParams}
    /\ returned = <<>>

\* the URL changes: currentTag and currentUser are read again
FilterChanged(t, u) ==
    /\ call' = <<[call[1] EXCEPT !.tag = t, !.user = u]>>
    /\ call' # call
    /\ last' = "filter_changed"
    /\ UNCHANGED <<phase, nBulk, mediaEvents, seenEventIds,
                   oldestLoadedTimestamp, isLoadingMore, hasMoreEvents,
                   histPending, inflight, timers, evicted, returned>>

NextFilter ==
    \/ ConnectOk
    \/ ConnectFail
    \/ \E reply \in Replies : HistoricalLoaded(reply)
    \/ \E e \in RelayIds : OnRelayEvent(e)
    \/ LoadMoreCall
    \/ \E c \in BagToSet(timers) : TimerFire(c)
    \/ \E reply \in Replies : LoadMoreReturn(reply)
    \/ \E t \in TagParams, u \in UserParams : FilterChanged(t, u)

SpecFilter == InitFilter /\ [][NextFilter]_vars

----------------------------------------------------------------------------
(* MediaFeed.svelte, run on its own, with the part of the page that feeds    *)
(* it.  `call` holds both: the props the page gives (length of               *)
(* filteredEvents, isLoadingMore, hasMoreEvents), what loadMoreEvents looks  *)
(* at besides (cursorSet: oldestLoadedTimestamp is truthy; retryTimers: the  *)
(* retries scheduled), histLoading (the initial load has not returned),     *)
(* error (the page's error is set), shown (the component exists), the        *)
(* component's variables currentIndex, loadMoreTriggered and isScrolling,    *)
(* and `did`, what happened last.  The page shows the component while error  *)
(* is not set and filteredEvents is non-empty.                               *)

\* $: if (hasMoreEvents && !isLoadingMore && !loadMoreTriggered &&
\*        currentIndex >= mediaEvents.length - 3) { loadMoreTriggered = true;
\*        onLoadMore() }, run after every change of what it reads.
\* onLoadMore is loadMoreEvents: it returns at its guard while the cursor is
\* not set, and sets isLoadingMore before its await otherwise.
React(f) ==
    IF /\ f.hasMoreEvents
       /\ ~f.isLoadingMore
       /\ ~f.loadMoreTriggered
       /\ f.currentIndex >= f.length - 3
    THEN [f EXCEPT !.loadMoreTriggered = TRUE, !.isLoadingMore = f.cursorSet,
                   !.did = "load_requested"]
    ELSE f

\* scrollToIndex(index)
ScrollToIndex(f, index) ==
    IF f.isScrolling \/ index < 0 \/ index >= f.length
    THEN [f EXCEPT !.did = "scroll_rejected"]
    ELSE [f EXCEPT !.isScrolling = TRUE,
                   !.currentIndex = index,
                   !.loadMoreTriggered = IF index < f.length - 3 THEN FALSE ELSE @,
                   !.did = "scrolled"]

\* the component as created with the page's props, before its reactive
\* statement runs
Mounted(n, more, loading, cursor, retries, hist) ==
    [fn |-> "MediaFeed", length |-> n, isLoadingMore |-> loading,
     hasMoreEvents |-> more, cursorSet |-> cursor, retryTimers |-> retries,
     histLoading |-> hist, error |-> FALSE, shown |-> TRUE,
     currentIndex |-> 0, loadMoreTriggered |-> FALSE, isScrolling |-> FALSE,
     did |-> "mounted"]

\* the page's {#if} chain around <MediaFeed mediaEvents={filteredEvents}>,
\* after the page state of f changed and filteredEvents got length n:
\* {:else if error} and {:else if filteredEvents.length === 0} come before
\* the component.  Either of them removes the component and its variables,
\* neither of them after one of them creates it, and otherwise the list is
\* a new prop of the component that exists.
Show(f, n, what) ==
    IF f.error \/ n = 0
    THEN [Mounted(n, f.hasMoreEvents, f.isLoadingMore, f.cursorSet,
                  f.retryTimers, f.histLoading)
              EXCEPT !.error = f.error, !.shown = FALSE, !.did = "unmounted"]
    ELSE IF ~f.shown
    THEN React(Mounted(n, f.hasMoreEvents, f.isLoadingMore, f.cursorSet,
                       f.retryTimers, f.histLoading))
    ELSE React([f EXCEPT !.length = n, !.did = what])

\* The component is created over a non-empty list with no error set.  A load in progress, a
\* scheduled retry and a cleared hasMoreEvents need the cursor, which the
\* initial load sets.
InitFeed ==
    /\ InitPage
    /\ nBulk = NSmall
    /\ call \in {<<React(Mounted(n, more, loading, cursor, retries, hist))>> :
                 n \in 1..MaxShown, more \in BOOLEAN, loading \in BOOLEAN,
                 cursor \in BOOLEAN, retries \in 0..1, hist \in BOOLEAN}
    /\ call[1].cursorSet \/ (/\ ~call[1].isLoadingMore
                             /\ call[1].retryTimers = 0
                             /\ call[1].hasMoreEvents)
    /\ call[1].cursorSet => ~call[1].histLoading
    /\ returned = <<>>

\* wheel down, swipe up, ArrowDown, j
MoveForward ==
    /\ call[1].fn = "MediaFeed"
    /\ call[1].shown
    /\ call' = <<React(ScrollToIndex(call[1], call[1].currentIndex + 1))>>
    /\ UNCHANGED <<returned, pageVars>>

\* wheel up, swipe down, ArrowUp, k
MoveBackward ==
    /\ call[1].fn = "MediaFeed"
    /\ call[1].shown
    /\ call' = <<React(ScrollToIndex(call[1], call[1].currentIndex - 1))>>
    /\ UNCHANGED <<returned, pageVars>>

\* Home, the back-to-latest button
ScrollToLatest ==
    /\ call[1].fn = "MediaFeed"
    /\ call[1].shown
    /\ call' = <<React(ScrollToIndex(call[1], 0))>>
    /\ UNCHANGED <<returned, pageVars>>

\* setTimeout(() => { isScrolling = false }, 150)
ScrollSettled ==
    /\ call[1].fn = "MediaFeed"
    /\ call[1].isScrolling
    /\ call' = <<[call[1] EXCEPT !.isScrolling = FALSE, !.did = "scroll_settled"]>>
    /\ UNCHANGED <<returned, pageVars>>

\* the page's loadMoreEvents returns: it appended `added` events, of which
\* `shown` pass the filter, and cleared isLoadingMore; hasMoreEvents stays or
\* is cleared; an all-duplicate page may have scheduled a retry
PageReturned(added, shown, more, retry) ==
    /\ call[1].fn = "MediaFeed"
    /\ call[1].isLoadingMore
    /\ shown <= added
    /\ call[1].length + shown <= MaxShown
    /\ retry => (added = 0 /\ more /\ call[1].retryTimers < MaxTimers)
    /\ call' = <<Show([call[1] EXCEPT
                          !.isLoadingMore = FALSE,
                          !.hasMoreEvents = @ /\ more,
                          !.retryTimers = IF retry THEN @ + 1 ELSE @],
                      call[1].length + shown, "page_returned")>>
    /\ UNCHANGED <<returned, pageVars>>

\* a retry timer of the page fires: loadMoreEvents(retryCount + 1) returns
\* at its guard or sets isLoadingMore
PageRetryFired ==
    /\ call[1].fn = "MediaFeed"
    /\ call[1].retryTimers > 0
    /\ LET f == call[1]
           starts == ~f.isLoadingMore /\ f.hasMoreEvents /\ f.cursorSet
       IN call' = <<Show([f EXCEPT !.retryTimers = @ - 1,
                                   !.isLoadingMore = IF starts THEN TRUE ELSE @],
                         f.length,
                         IF starts THEN "retry_started" ELSE "retry_suppressed")>>
    /\ UNCHANGED <<returned, pageVars>>

\* the initial historical load returns n events shown: it replaces the feed
\* and sets the cursor if the feed is not empty
HistoricalShown(n, cursor) ==
    /\ call[1].fn = "MediaFeed"
    /\ call[1].histLoading
    /\ n = 0 \/ cursor
    /\ call' = <<Show([call[1] EXCEPT !.cursorSet = cursor, !.histLoading = FALSE],
                      n, "historical_shown")>>
    /\ UNCHANGED <<returned, pageVars>>

\* the onError callback given to subscribeToMediaFeed: parseEvent threw in
\* onevent, or onclose got reasons.  error = err.message, which nothing on
\* this path clears
SubscriptionError ==
    /\ call[1].fn = "MediaFeed"
    /\ call' = <<Show([call[1] EXCEPT !.error = TRUE], call[1].length,
                      "subscription_error")>>
    /\ UNCHANGED <<returned, pageVars>>

\* filteredEvents changes to another list: the filter changed, or a live
\* merge added an event or cut the feed to its bound
ListChanged(n) ==
    /\ call[1].fn = "MediaFeed"
    /\ n # call[1].length
    /\ call' = <<Show(call[1], n, "list_changed")>>
    /\ UNCHANGED <<returned, pageVars>>

NextFeed ==
    \/ MoveForward
    \/ MoveBackward
    \/ ScrollToLatest
    \/ ScrollSettled
    \/ \E added \in 0..MaxAdded : \E shown \in 0..MaxAdded :
          \E more \in BOOLEAN : \E retry \in BOOLEAN :
             PageReturned(added, shown, more, retry)
    \/ PageRetryFired
    \/ \E n \in 0..MaxShown : \E cursor \in BOOLEAN : HistoricalShown(n, cursor)
    \/ \E n \in 0..MaxShown : ListChanged(n)
    \/ SubscriptionError

SpecFeed == InitFeed /\ [][NextFeed]_vars

\* The user only moves forward and keeps doing so, scroll animations end,
\* the page's loads return and its retry timers fire; the list changes by
\* the page's loads only.  The subscription may fail at any time.
NextFeedForward ==
    \/ MoveForward
    \/ ScrollSettled
    \/ \E added \in 0..MaxAdded : \E more \in BOOLEAN : \E retry \in BOOLEAN :
          PageReturned(added, added, more, retry)
    \/ PageRetryFired
    \/ \E n \in 0..MaxShown : \E cursor \in BOOLEAN : HistoricalShown(n, cursor)
    \/ SubscriptionError

SpecFeedLive ==
    /\ InitFeed
    /\ [][NextFeedForward]_vars
    /\ WF_vars(MoveForward)
    /\ WF_vars(ScrollSettled)
    /\ WF_vars(\E added \in 0..MaxAdded : \E more \in BOOLEAN : \E retry \in BOOLEAN :
                  PageReturned(added, added, more, retry))
    /\ WF_vars(PageRetryFired)
    /\ WF_vars(\E n \in 0..MaxShown : \E cursor \in BOOLEAN : HistoricalShown(n, cursor))

----------------------------------------------------------------------------
(* Claims *)

\* C1: after any interleaving of live merges, the initial historical load
\* and older-page merges, mediaEvents is sorted by created_at descending.
\* Violated: loadMoreEvents appends the page behind the feed without sorting.
C1_FeedSortedDesc == IsSortedDesc(mediaEvents)

\* C2: no two events of mediaEvents share an id, in every reachable state.
C2_NoDuplicateIds == NoDuplicates(mediaEvents)

\* a page has just been merged that re-delivered OldA, which the live
\* subscription had delivered before: the page's OldB was appended alone
C2_RedeliveredOnBothPaths ==
    /\ last = "page_merged"
    /\ Len(mediaEvents) >= 2
    /\ mediaEvents[Len(mediaEvents)] = OldB
    /\ mediaEvents[Len(mediaEvents) - 1] # OldA
    /\ OldA \in Ids(mediaEvents)

\* C3: a live merge of an event not seen before leaves at most 100 events in
\* the feed, and every event it drops is no newer than every event it keeps.
C3_LiveBoundDropsOldest ==
    [][\A e \in LiveIds :
         (e \notin seenEventIds /\ OnEvent(e)) =>
            /\ Len(mediaEvents') <= MaxFeed
            /\ \A d \in (Ids(mediaEvents) \cup {e}) \ Ids(mediaEvents') :
                 \A k \in Ids(mediaEvents') : CreatedAt(d) <= CreatedAt(k)]_vars

\* a live merge has just cut a longer feed down to 100 events
C3_LiveMergeTruncated ==
    /\ last = "live_truncated"
    /\ Len(mediaEvents) = MaxFeed
    /\ evicted # {}

\* C4: an older-page merge removes nothing: the feed before the merge is a
\* prefix of the feed after it, and the feed grows by exactly the number of
\* page events whose id was not in the seen-set.
C4_PageMergeOnlyAppends ==
    [][(inflight # <<>> /\ LoadMoreReturn("ok")) =>
         LET page == GetOlderEvents(nBulk, inflight[1].until, PageLimit, "ok")
             unseen == Ids(page) \ seenEventIds
         IN /\ Len(mediaEvents') = Len(mediaEvents) + Cardinality(unseen)
            /\ \A k \in 1..Len(mediaEvents) : mediaEvents'[k] = mediaEvents[k]]_vars

\* a page merge has just grown the feed past the live bound of 100
C4_PageGrewPastLiveBound ==
    /\ last = "page_merged"
    /\ Len(mediaEvents) > MaxFeed

\* C5: a live delivery of an event whose id is in the seen-set leaves the
\* feed, the seen-set and the cursor unchanged.
C5_LiveMergeIdempotent ==
    [][\A e \in LiveIds :
         (e \in seenEventIds /\ OnEvent(e)) =>
            UNCHANGED <<mediaEvents, seenEventIds, oldestLoadedTimestamp>>]_vars

\* an event resident in the feed has just been delivered again
C5_ResidentEventRedelivered ==
    /\ last = "live_duplicate"
    /\ LiveIds \cap Ids(mediaEvents) # {}

\* C6: an event evicted by the live bound is not put back into the feed by
\* any later live delivery or older-page load.
C6_NoResurrection ==
    [][((\E e \in LiveIds : OnEvent(e)) \/ (\E reply \in Replies : LoadMoreReturn(reply))) =>
         \A i \in evicted : i \notin Ids(mediaEvents) => i \notin Ids(mediaEvents')]_vars

\* an evicted event has just been delivered again by the live subscription
C6_EvictedEventRedelivered ==
    /\ last = "live_duplicate_evicted"
    /\ evicted \cap Ids(mediaEvents) = {}

\* C7: no step removes an id from seenEventIds.
C7_SeenSetMonotonic == [][seenEventIds \subseteq seenEventIds']_vars

\* after an eviction and an all-duplicate page that is being retried, the
\* seen-set still holds the evicted ids
C7_SeenKeepsEvictedIds ==
    /\ evicted # {}
    /\ evicted \subseteq seenEventIds
    /\ last = "page_duplicate_retry"

\* (the cursor is not 0, hasMoreEvents is set, no load is in progress), so
\* that the retry issues the next query.
C8_DuplicatePageAlwaysRetried ==
    [][last' = "page_duplicate_retry" =>
          /\ BagCardinality(timers') = BagCardinality(timers) + 1
          /\ oldestLoadedTimestamp' = Some(oldestLoadedTimestamp[1] - Day)
          /\ oldestLoadedTimestamp'[1] # 0
          /\ hasMoreEvents'
          /\ ~isLoadingMore']_vars

\* C9 (violated by the code): the budget is MaxRetries consecutive
\* all-duplicate pages.  A chain started with retry counter 0 aborts on its
\* third all-duplicate page and issues no fourth query.  Violated: the test
\* retryCount < 3 lets the pages with counters 0, 1 and 2 retry, so a fourth
\* query is issued.
C9_AbortsOnThirdPage ==
    inflight # <<>> => inflight[1].queries <= MaxRetries

\* What the code does instead: the chain aborts on its fourth consecutive
\* all-duplicate page (the first query and MaxRetries retries), the cursor
\* having been moved back a day MaxRetries times by then, and issues no
\* fifth query.
C9_AbortsOnFourthPage ==
    /\ [][(inflight # <<>> /\ last' = "page_duplicate_abort") =>
            /\ inflight[1].queries = MaxRetries + 1
            /\ inflight[1].decrements = MaxRetries
            /\ UNCHANGED <<oldestLoadedTimestamp, timers>>]_vars
    /\ [](inflight # <<>> => inflight[1].queries <= MaxRetries + 1)
    /\ [](\A c \in BagToSet(timers) :
             c.queries = c.retryCount /\ c.decrements = c.retryCount)

\* a chain has just given up on an all-duplicate page
C9_ChainAborted ==
    /\ last = "page_duplicate_abort"
    /\ inflight = <<>>
    /\ timers = EmptyBag

\* C10: giving up on all-duplicate pages leaves hasMoreEvents true.
\* Violated: the abort branch sets hasMoreEvents = false.
C10_AbortKeepsHasMoreEvents ==
    last = "page_duplicate_abort" => hasMoreEvents

\* C11: once an older-page query has returned zero records hasMoreEvents is
\* false, it never becomes true again, and no older-page query is issued
\* while it is false, neither by the UI nor by a pending retry timer.
C11_ExhaustionIsTerminal ==
    /\ [][last' = "page_empty" => ~hasMoreEvents']_vars
    /\ [][~hasMoreEvents => (~hasMoreEvents' /\ Len(inflight') <= Len(inflight))]_vars
    /\ [](~hasMoreEvents => inflight = <<>>)

\* an empty page has exhausted the small store while a retry timer was
\* pending; the timer has just fired and was turned away by the guard
C11_TimerFiredAfterExhaustion ==
    /\ nBulk = NSmall
    /\ ~hasMoreEvents
    /\ last = "retry_suppressed"

\* C12: a failing older-page query does not mark pagination exhausted and
\* leaves the cursor, the seen-set and the feed unchanged.
\* Violated: fetchMediaEvents turns the failure into an empty page, which
\* loadMoreEvents takes for the end of the history.
C12_FailedQueryIsResumable ==
    [][(inflight # <<>> /\ LoadMoreReturn("throws")) =>
         UNCHANGED <<hasMoreEvents, oldestLoadedTimestamp, seenEventIds,
                     mediaEvents>>]_vars

\* C13: a failing older-page query of a call that still has retries left is
\* retried: a timer for loadMoreEvents(retryCount + 1) is scheduled and the
\* cursor keeps its value.
\* Violated: the failure reaches loadMoreEvents as an empty page, no retry is
\* scheduled.
C13_FailedQueryIsRetried ==
    [][(/\ inflight # <<>>
        /\ LoadMoreReturn("throws")
        /\ inflight[1].retryCount < MaxRetries) =>
         /\ UNCHANGED oldestLoadedTimestamp
         /\ \E c \in BagToSet(timers') :
              /\ c.retryCount = inflight[1].retryCount + 1
              /\ CopiesIn(c, timers') = CopiesIn(c, timers) + 1]_vars

\* C14: at most one older-page query is in flight, and a loadMoreEvents call
\* made by the UI or by a retry timer while a query is awaited changes
\* nothing of the page's state.
C14_OneQueryInFlight ==
    /\ [](Len(inflight) <= 1)
    /\ [][(/\ inflight # <<>>
           /\ (LoadMoreCall \/ \E c \in BagToSet(timers) : TimerFire(c))) =>
            UNCHANGED <<mediaEvents, seenEventIds, oldestLoadedTimestamp,
                        isLoadingMore, hasMoreEvents, inflight>>]_vars

\* a call has just been turned away while a query was being awaited
C14_CallSuppressedWhileLoading ==
    /\ last = "load_suppressed"
    /\ isLoadingMore
    /\ hasMoreEvents
    /\ Len(inflight) = 1

\* C15: the cursor never increases, and every page merge and every duplicate
\* retry leaves it strictly smaller than before (the source answers with
\* records no newer than the cursor the query was issued with).
\* Violated: a page whose only unseen records carry the cursor's own
\* created_at is merged and leaves the cursor where it was.
C15_CursorStrictlyBackward ==
    [][/\ oldestLoadedTimestamp # Null =>
            /\ oldestLoadedTimestamp' # Null
            /\ oldestLoadedTimestamp'[1] <= oldestLoadedTimestamp[1]
       /\ (/\ \E reply \in Replies : LoadMoreReturn(reply)
           /\ last' \in {"page_merged", "page_duplicate_retry"}) =>
            oldestLoadedTimestamp'[1] < oldestLoadedTimestamp[1]]_vars

\* C16: a page with at least one unseen event merges exactly the unseen
\* events, adds their ids to the seen-set, sets the cursor to the least
\* created_at among them and schedules no retry; and a load triggered by the
\* UI starts with retry counter 0.
C16_PageMergeAdvancesCursor ==
    /\ [][\A reply \in Replies :
            LET page == GetOlderEvents(nBulk, inflight[1].until, PageLimit, reply)
                unseen == Ids(page) \ seenEventIds
            IN (inflight # <<>> /\ LoadMoreReturn(reply) /\ unseen # {}) =>
                 /\ Ids(mediaEvents') = Ids(mediaEvents) \cup unseen
                 /\ Len(mediaEvents') = Len(mediaEvents) + Cardinality(unseen)
                 /\ seenEventIds' = seenEventIds \cup unseen
                 /\ oldestLoadedTimestamp' # Null
                 /\ \A i \in unseen : oldestLoadedTimestamp'[1] <= CreatedAt(i)
                 /\ \E i \in unseen : oldestLoadedTimestamp'[1] = CreatedAt(i)
                 /\ timers' = timers
                 /\ hasMoreEvents' = hasMoreEvents]_vars
    /\ [](last = "load_called" => inflight[Len(inflight)].retryCount = 0)

\* a page has just been merged behind the initial load: the cursor is the
\* created_at of the oldest event it added, and no retry is pending
C16_PageMergedCursorAtOldest ==
    /\ last = "page_merged"
    /\ timers = EmptyBag
    /\ Len(mediaEvents) > HistLimit
    /\ oldestLoadedTimestamp = Some(CreatedAt(mediaEvents[Len(mediaEvents)]))
    /\ oldestLoadedTimestamp[1] < CreatedAt(mediaEvents[HistLimit])

\* C17: once the initial load has completed, whenever the feed is non-empty
\* the cursor is set.
\* Violated: the live handler never sets oldestLoadedTimestamp, so a feed
\* filled only by the live subscription has no cursor.
C17_CursorSetWhenFeedNonEmpty ==
    (phase = "running" /\ ~histPending /\ mediaEvents # <<>>) =>
        oldestLoadedTimestamp # Null

\* C18: connect() throws exactly when every configured relay failed to
\* connect, in whatever order the attempts settled; with at least one relay
\* connected it resolves.
C18_ConnectThrowsIffAllFailed ==
    (returned # <<>> /\ call[1].fn = "connect") =>
        LET settled == call[1].settled
            allFailed == \A k \in 1..Len(settled) : ~settled[k].ok
        IN /\ Len(settled) = call[1].relays
           /\ returned[1] = "throws" <=> allFailed
           /\ returned[1] = "resolved" <=> ~allFailed

\* connect() has resolved although the last configured relay failed, and
\* failed before any other attempt settled
C18_ResolvedAfterEarlyFailure ==
    /\ returned = <<"resolved">>
    /\ call[1].fn = "connect"
    /\ call[1].version = "allSettled"
    /\ call[1].relays = MaxRelays
    /\ call[1].settled[1] = [relay |-> MaxRelays, ok |-> FALSE]

\* C19: parseImetaTag returns null for every tag without a non-empty url
\* entry or without a non-empty m entry, and a descriptor it returns has a
\* non-empty url and a non-empty mimeType.
C19_NullWithoutUrlOrMime ==
    (returned # <<>> /\ call[1].fn = "parseImetaTag") =>
        LET tag == call[1].imetaTag
            hasUrl == \E i \in 2..Len(tag) :
                         /\ Len(tag[i]) > 4
                         /\ SubSeq(tag[i], 1, 4) = <<"u", "r", "l", " ">>
            hasM == \E i \in 2..Len(tag) :
                       /\ Len(tag[i]) > 2
                       /\ SubSeq(tag[i], 1, 2) = <<"m", " ">>
        IN /\ (~hasUrl \/ ~hasM) => returned[1] = Null
           /\ returned[1] # Null =>
                 /\ returned[1][1].url # Null
                 /\ returned[1][1].url[1] # <<>>
                 /\ returned[1][1].mimeType # Null
                 /\ returned[1][1].mimeType[1] # <<>>

\* null has been returned for a tag whose only url entry is empty
C19_EmptyUrlRejected ==
    /\ returned = <<Null>>
    /\ call[1].fn = "parseImetaTag"
    /\ call[1].imetaTag = <<<<"i", "m", "e", "t", "a">>, KeyUrl, KeyM \o <<"v">>>>

\* C20: the fallback list and the image list of a returned descriptor hold
\* the values of the tag's fallback and image entries, one per occurrence,
\* in the order of the tag; a list without entries is undefined.
C20_ListsKeepOrderAndCount ==
    (returned # <<>> /\ call[1].fn = "parseImetaTag" /\ returned[1] # Null) =>
        LET tag == call[1].imetaTag
            fallbacks == SelectSeq(tag, LAMBDA e :
                            /\ Len(e) >= 9
                            /\ SubSeq(e, 1, 9) = KeyFallback)
            images == SelectSeq(tag, LAMBDA e :
                         /\ Len(e) >= 6
                         /\ SubSeq(e, 1, 6) = KeyImage)
            fallbackValues == [k \in 1..Len(fallbacks) |->
                                 SubSeq(fallbacks[k], 10, Len(fallbacks[k]))]
            imageValues == [k \in 1..Len(images) |->
                              SubSeq(images[k], 7, Len(images[k]))]
            desc == returned[1][1]
        IN /\ desc.fallback =
                 IF Len(fallbacks) = 0 THEN Null ELSE Some(fallbackValues)
           /\ desc.image = IF Len(images) = 0 THEN Null ELSE Some(imageValues)

\* a descriptor has been returned for a tag with two fallback entries, the
\* value 2 before the value 1
C20_TwoFallbacksInTagOrder ==
    /\ returned # <<>>
    /\ call[1].fn = "parseImetaTag"
    /\ call[1].version = "table"
    /\ returned[1] # Null
    /\ returned[1][1].fallback = Some(<<<<"2">>, <<"1">>>>)
    /\ call[1].imetaTag[2] = KeyFallback \o <<"2">>

\* C21: parseImetaTag ignores unrecognized keys: a tag and the same tag
\* without the elements (after its name) whose key, the text before the
\* first space, is none of url, m, dim, blurhash, alt, x, fallback, image,
\* service give the same result.
C21_UnknownKeysIgnored ==
    (returned # <<>> /\ call[1].fn = "parseImetaTag") =>
        LET tag == call[1].imetaTag
            keys == {<<"u", "r", "l">>, <<"m">>, <<"d", "i", "m">>,
                     <<"b", "l", "u", "r", "h", "a", "s", "h">>,
                     <<"a", "l", "t">>, <<"x">>,
                     <<"f", "a", "l", "l", "b", "a", "c", "k">>,
                     <<"i", "m", "a", "g", "e">>,
                     <<"s", "e", "r", "v", "i", "c", "e">>}
            known == {e \in Ids(tag) :
                        \E k \in keys :
                           \/ e = k
                           \/ /\ Len(e) > Len(k)
                              /\ SubSeq(e, 1, Len(k)) = k
                              /\ e[Len(k) + 1] = " "}
            stripped == <<tag[1]>> \o SelectSeq(Tail(tag), LAMBDA e : e \in known)
        IN returned[1] = ParseImetaTag(stripped, call[1].version)

\* a descriptor has been returned for a tag that has an element of unknown
\* key and an element whose key only begins like url between its url and m
C21_UnknownKeyBetweenUrlAndMime ==
    /\ returned # <<>>
    /\ call[1].fn = "parseImetaTag"
    /\ call[1].version = "table"
    /\ returned[1] # Null
    /\ returned[1][1].alt = Null
    /\ call[1].imetaTag = <<<<"i", "m", "e", "t", "a">>, KeyUrl \o <<"a">>,
                            <<"z", " ", "q">>, <<"u", "r", "l", "s", " ", "a">>,
                            KeyM \o <<"v">>>>

\* C22: parseEvent returns null for every record whose kind is neither 20
\* nor 22, whatever its tags.
C22_NullForOtherKinds ==
    (returned # <<>> /\ call[1].fn = "parseEvent"
        /\ call[1].event.kind \notin {20, 22}) =>
        returned[1] = Null

\* null has been returned for a record of kind 21 that has a valid imeta tag
C22_OtherKindWithMediaRejected ==
    /\ returned = <<Null>>
    /\ call[1].fn = "parseEvent"
    /\ call[1].event.kind = 21
    /\ call[1].event.tags = <<<<NameImeta, KeyUrl \o <<"a">>, KeyM \o <<"v">>>>>>

\* C23: for a record of kind 20 or 22 none of whose imeta tags is valid,
\* parseEvent returns null.
\* Violated: parseEvent returns an event with an empty media list; it is its
\* callers that drop such an event.
C23_NullWithoutValidImeta ==
    (/\ returned # <<>>
     /\ call[1].fn = "parseEvent"
     /\ call[1].event.kind \in {20, 22}
     /\ \A k \in 1..Len(call[1].event.tags) :
           LET tag == call[1].event.tags[k]
           IN tag[1] = NameImeta =>
                 ParseImetaTag(tag, call[1].version) = Null) =>
        returned[1] = Null

\* C24: duration (published_at) is the integer value of the first duration
\* (published_at) tag when that value is a run of decimal digits, and is
\* undefined when there is no such tag and when the first such tag has no
\* value or a value that does not begin with a number.
\* Violated: parseInt yields NaN for a value that is no number, and the
\* field is NaN, not undefined.
C24_DurationIntegerOrAbsent ==
    (returned # <<>> /\ call[1].fn = "parseEvent" /\ returned[1] # Null) =>
        LET tags == call[1].event.tags
            durations == {k \in 1..Len(tags) : tags[k][1] = NameDuration}
            first == tags[MinOf(durations)]
        IN /\ durations = {} => returned[1][1].duration = Null
           /\ (durations # {} /\ first = <<NameDuration, <<"4", "5">>>>) =>
                 returned[1][1].duration = Some(Num(45))
           /\ (durations # {} /\ first \in {<<NameDuration>>,
                                            <<NameDuration, <<"a", "b", "c">>>>}) =>
                 returned[1][1].duration = Null

\* C25: the media list of the event parseEvent returns holds, in tag order,
\* the descriptors of exactly those imeta tags of the record for which
\* parseImetaTag returns a descriptor.
C25_MediaIsValidImetaInOrder ==
    (returned # <<>> /\ call[1].fn = "parseEvent" /\ returned[1] # Null) =>
        LET tags == call[1].event.tags
            valid == SelectSeq([k \in 1..Len(tags) |-> k],
                        LAMBDA k :
                           /\ tags[k][1] = NameImeta
                           /\ ParseImetaTag(tags[k], call[1].version) # Null)
            media == returned[1][1].media
        IN /\ Len(media) = Len(valid)
           /\ \A j \in 1..Len(valid) :
                 Some(media[j]) = ParseImetaTag(tags[valid[j]], call[1].version)

\* an event has been returned for a record whose imeta tags are a valid one,
\* an invalid one and another valid one: its media list is the two valid
\* descriptors, url b before url a
C25_InvalidImetaBetweenValid ==
    /\ returned # <<>>
    /\ call[1].fn = "parseEvent"
    /\ returned[1] # Null
    /\ call[1].event.tags =
          <<<<NameImeta, KeyUrl \o <<"b">>, KeyM \o <<"v">>>>,
            <<NameImeta, KeyUrl \o <<"a">>>>,
            <<NameImeta, KeyUrl \o <<"a">>, KeyM \o <<"v">>>>>>
    /\ Len(returned[1][1].media) = 2
    /\ returned[1][1].media[1].url = Some(<<"b">>)
    /\ returned[1][1].media[2].url = Some(<<"a">>)

\* ---------------------------------------------------------------------------
\* C26 (violated by the code): among feed events with equal created_at, an
\* event merged earlier precedes one merged later.  Stated on every step: an
\* event that stays in the feed precedes every event of the same timestamp
\* that the step merges.  The live handler puts the new event in front of the
\* feed before the stable sort, so the new event precedes its equals.
PositionIn(feed, i) == CHOOSE k \in 1..Len(feed) : feed[k] = i

C26_TiesKeepArrivalOrder ==
    [][\A k \in Ids(mediaEvents) \cap Ids(mediaEvents') :
         \A n \in Ids(mediaEvents') \ Ids(mediaEvents) :
            CreatedAt(k) = CreatedAt(n)
               => PositionIn(mediaEvents', k) < PositionIn(mediaEvents', n)]_vars

\* ---------------------------------------------------------------------------
\* C27 (violated by the code): after teardown no operation is issued.  On
\* every step taken once the session is destroyed, no historical query is
\* started (neither an older page nor the initial load), and no live event
\* is merged into the feed.  onDestroy clears no timer, so a retry scheduled
\* before teardown fires and starts a query; and it does not stop onMount,
\* which loads and subscribes when connect() resolves after the teardown.
C27_NoOperationAfterTeardown ==
    [][TornDown
         => /\ Len(inflight') <= Len(inflight)
            /\ histPending' => histPending
            /\ last' \notin {"live_merged", "live_truncated"}]_vars

\* ---------------------------------------------------------------------------
\* C28: every event in the feed has a non-empty media list.  A record of a
\* recognized kind without a valid descriptor reaches the feed neither by the
\* live path nor by the historical load nor by an older page.
C28_FeedEventsHaveMedia == \A i \in Ids(mediaEvents) : HasMedia(i)

\* The relays answered the historical query and an older-page query with
\* the record without media among the others (bulk record NMid only comes
\* with an older page, whose query reaches past it to the old records), and
\* the live subscription has just been delivered that record.
C28_BareRecordPassedOnEveryPath ==
    /\ nBulk = NMid
    /\ last = "live_dropped"
    /\ NMid \in Ids(mediaEvents)
    /\ OldA \in Ids(mediaEvents)
    /\ BareId \notin Ids(mediaEvents)

\* ---------------------------------------------------------------------------
\* C29: an all-duplicate page that is retried moves the cursor back by
\* exactly 86400 and leaves the feed, the seen-set and hasMoreEvents as they
\* were; the retry it schedules carries the chain's retry counter plus one.
C29_DuplicateRetryFrame ==
    [][\A reply \in Replies :
         (/\ inflight # <<>>
          /\ LoadMoreReturn(reply)
          /\ LET olderEvents == GetOlderEvents(nBulk, inflight[1].until,
                                               PageLimit, reply)
             IN /\ Len(olderEvents) > 0
                /\ \A k \in 1..Len(olderEvents) : olderEvents[k] \in seenEventIds
          /\ inflight[1].retryCount < MaxRetries)
         => /\ oldestLoadedTimestamp'[1] = oldestLoadedTimestamp[1] - 86400
            /\ mediaEvents' = mediaEvents
            /\ seenEventIds' = seenEventIds
            /\ hasMoreEvents' = hasMoreEvents
            /\ \E c \in BagToSet(timers') :
                  /\ c.retryCount = inflight[1].retryCount + 1
                  /\ CopiesIn(c, timers') = CopiesIn(c, timers) + 1
                  /\ \A d \in BagToSet(timers') \ {c} :
                        CopiesIn(d, timers') = CopiesIn(d, timers)]_vars

\* The second all-duplicate page of one chain has just been retried.
C29_SecondDuplicatePageRetried ==
    /\ last = "page_duplicate_retry"
    /\ \E c \in BagToSet(timers) : c.retryCount = 2 /\ c.decrements = 2

\* ---------------------------------------------------------------------------
\* C30 (violated by the code): while a retry is pending the controller is
\* loading, so that a call from the UI is suppressed and at most one chain
\* (a pending retry or a query in flight) is active.  The return that
\* follows setTimeout runs the finally block, which clears isLoadingMore.
C30_LoadingWhileRetryPending ==
    /\ timers # EmptyBag => isLoadingMore
    /\ BagCardinality(timers) + Len(inflight) <= 1

\* ---------------------------------------------------------------------------
\* C34: in every reachable state the id of every event in the feed is in
\* the seen-set.
C34_SeenCoversFeed == Ids(mediaEvents) \subseteq seenEventIds

\* The feed holds events of the historical load, of the live subscription
\* and of an older page just merged.
C34_FeedFromAllThreePaths ==
    /\ nBulk = NMid
    /\ last = "page_merged"
    /\ FreshId \in Ids(mediaEvents)
    /\ NMid \in Ids(mediaEvents)
    /\ 2 \in Ids(mediaEvents)

\* ---------------------------------------------------------------------------
\* C32 (violated by the code): no merged event leaves the feed except by
\* the live handler's bound.  On every step other than a truncating live
\* merge, the events of the feed are still in the feed afterwards.  The
\* .then of the initial load assigns the historical batch to mediaEvents,
\* so a live event merged before it is dropped.
C32_MergedEventsStay ==
    [][last' # "live_truncated"
         => Ids(mediaEvents) \subseteq Ids(mediaEvents')]_vars

\* ---------------------------------------------------------------------------
\* C33: pagination leaves no gaps.  Whenever no page load is in progress and
\* the cursor is set, every record with media that the source holds with
\* created_at greater than the cursor has its id in the seen-set.
SourceRecords(n) == Ids(MediaOnly(StoreSeq(n)))

C33_NoGapAboveCursor ==
    (inflight = <<>> /\ oldestLoadedTimestamp # Null)
        => \A i \in SourceRecords(nBulk) :
              CreatedAt(i) > oldestLoadedTimestamp[1] => i \in seenEventIds

\* ---------------------------------------------------------------------------
\* C35: the loading guard is always released.  isLoadingMore is true only
\* while a query is in flight, and, the query returning or throwing, it is
\* eventually false again.
C35_LoadingReleased ==
    /\ [](isLoadingMore => inflight # <<>>)
    /\ (isLoadingMore ~> ~isLoadingMore)

\* A chain ran through its retries to the abort, and the guard is released.
C35_ReleasedAfterAbort ==
    /\ last = "page_duplicate_abort"
    /\ ~isLoadingMore
    /\ inflight = <<>>

\* ---------------------------------------------------------------------------
\* C38: fetchMediaEvents(filter, limit) returns at most limit events, with
\* pairwise distinct ids, each with media, sorted by created_at descending,
\* and they are the limit newest of the distinct media events of the answer;
\* when the query throws it returns the empty list.
C38_FetchResultShape ==
    (call # <<>> /\ returned # <<>>)
        => (call[1].fn = "fetchMediaEvents"
              => LET out == returned[1]
                     media == {i \in Ids(call[1].events) : HasMedia(i)}
                 IN IF call[1].throws
                    THEN out = <<>>
                    ELSE /\ Len(out) = Min2(call[1].limit, Cardinality(media))
                         /\ NoDuplicates(out)
                         /\ Ids(out) \subseteq media
                         /\ IsSortedDesc(out)
                         /\ \A x \in Ids(out) : \A y \in media \ Ids(out) :
                               CreatedAt(x) >= CreatedAt(y))

\* The answer was out of order, held one record twice and one without
\* media, and more media events than the limit.
C38_UnsortedRepeatedAnswerCut ==
    /\ call # <<>>
    /\ returned # <<>>
    /\ call[1].fn = "fetchMediaEvents"
    /\ ~call[1].throws
    /\ call[1].events = <<4, BareId, 1, 4>>
    /\ call[1].limit = 1
    /\ returned[1] = <<1>>

\* ---------------------------------------------------------------------------
\* C31: filtering is a pure projection.  filteredEvents is the subsequence
\* of mediaEvents, in its order, of the events matching the filter: those of
\* the author when an author is given, else those carrying the tag when a
\* tag is given, else all.  A change of the filter leaves mediaEvents, the
\* seen-set and the cursor as they were.
Matches(i, tag, user) ==
    IF Truthy(user) THEN PubkeyOf(i) = user[1]
    ELSE IF Truthy(tag) THEN <<"t", tag[1]>> \in Ids(TagsOf(i))
    ELSE TRUE

\* f holds the matching elements of s and no other, each once, in the
\* order they have in s (s holds no element twice)
IsProjection(f, s, tag, user) ==
    /\ Ids(f) = {i \in Ids(s) : Matches(i, tag, user)}
    /\ NoDuplicates(f)
    /\ \A j, k \in 1..Len(f) :
          j < k => PositionIn(s, f[j]) < PositionIn(s, f[k])

C31_FilterIsPureProjection ==
    /\ [](IsProjection(FilteredEvents, mediaEvents, call[1].tag, call[1].user))
    /\ [][call' # call
            => UNCHANGED <<mediaEvents, seenEventIds, oldestLoadedTimestamp>>]_vars

\* The filter has just changed to an author and a tag over a feed that
\* holds events of the author without the tag and events with the tag of
\* another author: the author's events are shown.
C31_AuthorAndTagGiven ==
    /\ last = "filter_changed"
    /\ call[1].user = Some("alice")
    /\ call[1].tag = Some("cats")
    /\ FilteredEvents # <<>>
    /\ FilteredEvents # mediaEvents
    /\ \E i \in Ids(FilteredEvents) : ~HasTag(i, Some("cats"))
    /\ \E i \in Ids(mediaEvents) \ Ids(FilteredEvents) : HasTag(i, Some("cats"))

\* ---------------------------------------------------------------------------
\* C36 (violated by the code): whenever the component shows a list (which
\* is then non-empty), currentIndex is a valid index into it, also after the
\* list shrank.
\* currentIndex is only assigned in scrollToIndex; nothing lowers it when
\* the list given to the component gets shorter.
C36_CurrentIndexValid ==
    call # <<>>
        => (call[1].fn = "MediaFeed"
              => (call[1].shown
                    => (0 <= call[1].currentIndex
                        /\ call[1].currentIndex < call[1].length)))

\* ---------------------------------------------------------------------------
\* C37 (violated by the code): load-more is eventually requested.  Whenever
\* the component is shown, hasMoreEvents is true, no load is in progress and
\* the user, who keeps moving forward, is within the last 3 items,
\* onLoadMore is eventually invoked (or hasMoreEvents is cleared, or the page
\* removes the component).  loadMoreTriggered is reset only by
\* a scroll to an index below length - 3, so after a page that added fewer
\* than 3 events it stays set while the user moves forward to the end.
C37_LoadMoreEventuallyRequested ==
    (/\ call[1].fn = "MediaFeed"
     /\ call[1].shown
     /\ call[1].hasMoreEvents
     /\ ~call[1].isLoadingMore
     /\ call[1].currentIndex >= call[1].length - 3)
        ~> (\/ call[1].did = "load_requested"
            \/ ~call[1].hasMoreEvents
            \/ ~call[1].shown)
====
